---- MODULE Spec2Model ----
EXTENDS Integers, Sequences, FiniteSets, TLC

(***************************************************************************)
(* Model of the node-lifecycle consistency core:                           *)
(*   - nodepool.hash controller   (pkg/controllers/nodepool/hash)          *)
(*   - lifecycle Registration     (second half of the same file)           *)
(*   - the process-wide shared cache (pkg/utils/sharedcache)               *)
(*   - nodeclaim garbage collection (decision table of the specification,  *)
(*     exercised by garbagecollection/suite_test.go)                       *)
(*                                                                         *)
(* Strings that the code concatenates and prefix-matches (cache keys) are  *)
(* sequences of characters, so that strings.HasPrefix is computed and not  *)
(* assumed.                                                                *)
(***************************************************************************)

VARIABLES curVersion, nodePools, nodeClaims, nodes, cache, instances, clock, last,
          held

vars == <<curVersion, nodePools, nodeClaims, nodes, cache, instances, clock, last,
          held>>

---------------------------------------------------------------------------
(* Bounds *)

\* hash versions are 1..MaxVersion; 0 stands for "annotation absent"
MaxVersion == 2
\* a NodePool's drift-relevant fields take the values 0..MaxSpec
MaxSpec == 1
\* NodeClaims are 1..NumClaims, Nodes are 1..NumNodes
NumClaims == 2
NumNodes == 2
\* a Node's observed allocatable memory is 1..MaxAlloc; 0 stands for "empty"
MaxAlloc == 2
\* the clock counts units of ten seconds, 0..MaxTime
MaxTime == 3
\* the consistency window, in the same units (the tests use 20 seconds)
ConsistencyWindow == 2

Versions == 1..MaxVersion
Specs == 0..MaxSpec
Claims == 1..NumClaims
Nodes == 1..NumNodes
Allocs == 1..MaxAlloc

\* two pools, the name of one being a prefix of the name of the other
PoolA == <<"a">>
PoolAB == <<"a", "b">>
PoolNames == {PoolA, PoolAB}

\* the instance-type label of a NodeClaim
InstanceTypeOf(c) == IF c % 2 = 1 THEN <<"x">> ELSE <<"y">>

NoHash == <<>>
NoLabel == <<>>
\* an empty Status.NodeName
NoNode == 0

---------------------------------------------------------------------------
(* Objects *)

FreshPool == [exists |-> TRUE, spec |-> 0, hash |-> NoHash, hv |-> 0]

FreshClaim(c, p) ==
    [exists |-> TRUE, pool |-> p, it |-> InstanceTypeOf(c),
     hash |-> NoHash, hv |-> 0, drifted |-> "nil",
     launched |-> FALSE, launchedAt |-> 0,
     registered |-> "", reason |-> "", nodeName |-> NoNode, alloc |-> 0,
     finalizer |-> TRUE]

AbsentNode ==
    [exists |-> FALSE, providerID |-> 0, ready |-> FALSE, alloc |-> 0,
     finalizer |-> FALSE, owner |-> FALSE, labels |-> NoLabel, registered |-> FALSE]

BootedNode(pid, a) ==
    [AbsentNode EXCEPT !.exists = TRUE, !.providerID = pid, !.ready = TRUE,
                       !.alloc = a]

EmptyCache == [k \in {} |-> 0]

\* an object that is gone from the API server keeps no content
GonePool == [FreshPool EXCEPT !.exists = FALSE]

GoneClaim(nc) ==
    [FreshClaim(0, nc.pool) EXCEPT !.exists = FALSE, !.it = nc.it, !.finalizer = FALSE]

---------------------------------------------------------------------------
(* Pure helpers *)

\* strings.HasPrefix
HasPrefix(s, prefix) ==
    /\ Len(prefix) <= Len(s)
    /\ SubSeq(s, 1, Len(prefix)) = prefix

\* fmt.Sprintf("allocatableCache;%s;%s", pool, instanceType)
CacheMapKey(pool, it) == <<"allocatableCache", ";">> \o pool \o <<";">> \o it

\* mutant: the prefix lacks the separator that ends the pool name
CachePrefixOpen(pool) == <<"allocatableCache", ";">> \o pool

\* fmt.Sprintf("allocatableCache;%s;", np.Name)
CachePrefix(pool) == <<"allocatableCache", ";">> \o pool \o <<";">>

\* np.Hash(): the digest of the drift-relevant fields, under the hashing
\* scheme of the running build (identified by curVersion)
Hash(spec) == <<"h", curVersion, spec>>

\* mutant: an entry that is already cached is not replaced
CacheSetIfAbsent(ch, k, v) ==
    [x \in (DOMAIN ch) \cup {k} |-> IF x \in DOMAIN ch THEN ch[x] ELSE v]

\* cache.Set
CacheSet(ch, k, v) == [x \in (DOMAIN ch) \cup {k} |-> IF x = k THEN v ELSE ch[x]]

\* cache.Delete for a set of keys
CacheDelete(ch, ks) == [x \in (DOMAIN ch) \ ks |-> ch[x]]

\* what a handler invocation did: which calls it made, which of them failed
\* (fault) and what it returned
NoCalls(op, key) ==
    [op |-> op, key |-> key, err |-> FALSE, fault |-> {},
     npPatch |-> FALSE, ncPatch |-> {}, ncDone |-> {}, ncDelete |-> {},
     nodePatch |-> {}, cacheDel |-> {}, cacheSet |-> {}, lookup |-> "none"]

\* the copies an invocation in flight holds of what it read: for the hash
\* controller of pool p the NodePool it was handed and the NodeClaims it listed,
\* for Registration of claim c the NodeClaim it was handed and the Nodes its
\* lookup returned; the empty sequence when no invocation is in flight
NoReads == [np |-> [p \in PoolNames |-> <<>>], reg |-> [c \in Claims |-> <<>>]]

PatchOutcomes == {"ok", "notfound", "err"}

---------------------------------------------------------------------------
(* nodepool.hash controller *)

\* NodeClaims selected by client.MatchingLabels{NodePoolLabelKey: np.Name}
Labeled(p) == {c \in Claims : nodeClaims[c].exists /\ nodeClaims[c].pool = p}

\* mutant: the hash is rewritten whether or not the claim is Drifted
UpdatedNodeClaimAnyDrift(nc, h) ==
    IF nc.hv # curVersion
    THEN [nc EXCEPT !.hv = curVersion, !.hash = h]
    ELSE nc

\* mutant: rewriting the hash also drops the Drifted condition
UpdatedNodeClaimDropsDrift(nc, h) ==
    IF nc.hv # curVersion
    THEN [nc EXCEPT !.hv = curVersion,
                    !.hash = IF nc.drifted = "nil" THEN h ELSE @,
                    !.drifted = "nil"]
    ELSE nc

\* updateNodeClaimHash, loop body: the NodeClaim as the controller wants it
UpdatedNodeClaim(nc, h) ==
    IF nc.hv # curVersion
    THEN [nc EXCEPT !.hv = curVersion,
                    !.hash = IF nc.drifted = "nil" THEN h ELSE @]
    ELSE nc

\* mutant: only the hash-version is stamped, the hash is not recomputed
UpdatedNodePoolVersionOnly(np) ==
    [np EXCEPT !.hv = curVersion]

\* Reconcile, lines 65-68: the NodePool as the controller wants it
UpdatedNodePool(np) ==
    [np EXCEPT !.hash = Hash(np.spec), !.hv = curVersion]

\* mutant: the write is not gated on a difference
NodePoolChangedAlways(stored, np) == TRUE

\* Reconcile, line 70: !equality.Semantic.DeepEqual(stored, np)
NodePoolChanged(stored, np) == stored # np

\* Reconcile, lines 72-77: the keys the controller deletes
PurgeKeys(p) == {k \in DOMAIN cache : HasPrefix(k, CachePrefix(p))}

\* the outcome of one NodeClaim patch applied to the stored object
PatchNodeClaim(nc, want, outcome) ==
    CASE outcome = "ok" -> want
      [] outcome = "notfound" -> GoneClaim(nc)
      [] OTHER -> nc

\* mutant: the propagation stops at the first NodeClaim patch that fails
HashReconcileAbortsBatch(p, listOk, ncOut, npOut) ==
    /\ nodePools[p].exists
    /\ LET np == nodePools[p]
           h == Hash(np.spec)
           stale == np.hv # curVersion
           all == IF stale /\ listOk
                  THEN {c \in Labeled(p) :
                          UpdatedNodeClaim(nodeClaims[c], h) # nodeClaims[c]}
                  ELSE {}
           targets == {c \in all : \A d \in all : ncOut[d] = "err" => c <= d}
           propErr == stale /\ (~listOk \/ \E c \in targets : ncOut[c] = "err")
           want == UpdatedNodePool(np)
           changed == ~propErr /\ NodePoolChanged(np, want)
           purge == IF changed THEN PurgeKeys(p) ELSE {}
       IN /\ (~stale => listOk)
          /\ \A c \in Claims \ targets : ncOut[c] = "ok"
          /\ (~changed => npOut = "ok")
          /\ nodeClaims' = [c \in Claims |->
                IF c \in targets
                THEN PatchNodeClaim(nodeClaims[c],
                                    UpdatedNodeClaim(nodeClaims[c], h), ncOut[c])
                ELSE nodeClaims[c]]
          /\ cache' = CacheDelete(cache, purge)
          /\ nodePools' = IF ~changed THEN nodePools
                          ELSE CASE npOut = "ok" -> [nodePools EXCEPT ![p] = want]
                                 [] npOut = "notfound" ->
                                        [nodePools EXCEPT ![p] = GonePool]
                                 [] OTHER -> nodePools
          /\ last' = [NoCalls("Hash", p) EXCEPT
                        !.err = propErr \/ (changed /\ npOut = "err"),
                        !.fault = (IF stale /\ ~listOk THEN {"list"} ELSE {})
                                  \cup (IF \E c \in targets : ncOut[c] = "err"
                                        THEN {"ncPatch"} ELSE {})
                                  \cup (IF changed /\ npOut = "err"
                                        THEN {"npPatch"} ELSE {}),
                        !.npPatch = changed,
                        !.ncPatch = targets,
                        !.ncDone = {c \in targets : ncOut[c] = "ok"},
                        !.cacheDel = purge]
    /\ UNCHANGED <<curVersion, nodes, instances, clock, held>>

\* mutant: the NodePool is patched although the propagation returned an error
HashReconcileIgnoresPropagation(p, listOk, ncOut, npOut) ==
    /\ nodePools[p].exists
    /\ LET np == nodePools[p]
           h == Hash(np.spec)
           stale == np.hv # curVersion
           targets == IF stale /\ listOk
                      THEN {c \in Labeled(p) :
                              UpdatedNodeClaim(nodeClaims[c], h) # nodeClaims[c]}
                      ELSE {}
           propErr == stale /\ (~listOk \/ \E c \in targets : ncOut[c] = "err")
           want == UpdatedNodePool(np)
           changed == NodePoolChanged(np, want)
           purge == IF changed THEN PurgeKeys(p) ELSE {}
       IN /\ (~stale => listOk)
          /\ \A c \in Claims \ targets : ncOut[c] = "ok"
          /\ (~changed => npOut = "ok")
          /\ nodeClaims' = [c \in Claims |->
                IF c \in targets
                THEN PatchNodeClaim(nodeClaims[c],
                                    UpdatedNodeClaim(nodeClaims[c], h), ncOut[c])
                ELSE nodeClaims[c]]
          /\ cache' = CacheDelete(cache, purge)
          /\ nodePools' = IF ~changed THEN nodePools
                          ELSE CASE npOut = "ok" -> [nodePools EXCEPT ![p] = want]
                                 [] npOut = "notfound" ->
                                        [nodePools EXCEPT ![p] = GonePool]
                                 [] OTHER -> nodePools
          /\ last' = [NoCalls("Hash", p) EXCEPT
                        !.err = propErr \/ (changed /\ npOut = "err"),
                        !.fault = (IF stale /\ ~listOk THEN {"list"} ELSE {})
                                  \cup (IF \E c \in targets : ncOut[c] = "err"
                                        THEN {"ncPatch"} ELSE {})
                                  \cup (IF changed /\ npOut = "err"
                                        THEN {"npPatch"} ELSE {}),
                        !.npPatch = changed,
                        !.ncPatch = targets,
                        !.ncDone = {c \in targets : ncOut[c] = "ok"},
                        !.cacheDel = purge]
    /\ UNCHANGED <<curVersion, nodes, instances, clock, held>>

\* Controller.Reconcile with updateNodeClaimHash inlined.
\*   listOk : the List of NodeClaims succeeds
\*   ncOut  : the outcome of each NodeClaim patch
\*   npOut  : the outcome of the NodePool patch
HashReconcile(p, listOk, ncOut, npOut) ==
    /\ nodePools[p].exists
    /\ LET np == nodePools[p]
           h == Hash(np.spec)
           stale == np.hv # curVersion
           targets == IF stale /\ listOk
                      THEN {c \in Labeled(p) :
                              UpdatedNodeClaim(nodeClaims[c], h) # nodeClaims[c]}
                      ELSE {}
           propErr == stale /\ (~listOk \/ \E c \in targets : ncOut[c] = "err")
           want == UpdatedNodePool(np)
           changed == ~propErr /\ NodePoolChanged(np, want)
           purge == IF changed THEN PurgeKeys(p) ELSE {}
       IN /\ (~stale => listOk)
          /\ \A c \in Claims \ targets : ncOut[c] = "ok"
          /\ (~changed => npOut = "ok")
          /\ nodeClaims' = [c \in Claims |->
                IF c \in targets
                THEN PatchNodeClaim(nodeClaims[c],
                                    UpdatedNodeClaim(nodeClaims[c], h), ncOut[c])
                ELSE nodeClaims[c]]
          /\ cache' = CacheDelete(cache, purge)
          /\ nodePools' = IF ~changed THEN nodePools
                          ELSE CASE npOut = "ok" -> [nodePools EXCEPT ![p] = want]
                                 [] npOut = "notfound" ->
                                        [nodePools EXCEPT ![p] = GonePool]
                                 [] OTHER -> nodePools
          /\ last' = [NoCalls("Hash", p) EXCEPT
                        !.err = propErr \/ (changed /\ npOut = "err"),
                        !.fault = (IF stale /\ ~listOk THEN {"list"} ELSE {})
                                  \cup (IF \E c \in targets : ncOut[c] = "err"
                                        THEN {"ncPatch"} ELSE {})
                                  \cup (IF changed /\ npOut = "err"
                                        THEN {"npPatch"} ELSE {}),
                        !.npPatch = changed,
                        !.ncPatch = targets,
                        !.ncDone = {c \in targets : ncOut[c] = "ok"},
                        !.cacheDel = purge]
    /\ UNCHANGED <<curVersion, nodes, instances, clock, held>>

---------------------------------------------------------------------------
(* lifecycle Registration *)

\* nodeclaimutil.NodeForNodeClaim: the Nodes whose spec.providerID is the claim's
NodesFor(c) == {n \in Nodes : nodes[n].exists /\ nodes[n].providerID = c}

\* syncNode, lines 215 and 237-245: the Node as the controller wants it
SyncedNode(nd, nc) ==
    [nd EXCEPT !.finalizer = TRUE, !.owner = TRUE,
               !.labels = nc.pool, !.registered = TRUE]

\* mutant: the Launched condition is not consulted
BranchNoLaunchCheck(nc, found, lookupOk) ==
    CASE nc.registered = "True" -> "noop"
      [] ~lookupOk -> "error"
      [] found = {} -> "NodeNotFound"
      [] Cardinality(found) > 1 -> "MultipleNodesFound"
      [] OTHER -> "sync"

\* mutant: a Node that is not found is reported as a processing error
BranchNotFoundIsError(nc, found, lookupOk) ==
    CASE nc.registered = "True" -> "noop"
      [] ~nc.launched -> "NotLaunched"
      [] ~lookupOk -> "error"
      [] found = {} -> "error"
      [] Cardinality(found) > 1 -> "MultipleNodesFound"
      [] OTHER -> "sync"

\* mutant: with several matching Nodes the first one is taken
BranchFirstOfMany(nc, found, lookupOk) ==
    CASE nc.registered = "True" -> "noop"
      [] ~nc.launched -> "NotLaunched"
      [] ~lookupOk -> "error"
      [] found = {} -> "NodeNotFound"
      [] OTHER -> "sync"

\* mutant: a registered claim is processed again
BranchNotTerminal(nc, found, lookupOk) ==
    CASE ~nc.launched -> "NotLaunched"
      [] ~lookupOk -> "error"
      [] found = {} -> "NodeNotFound"
      [] Cardinality(found) > 1 -> "MultipleNodesFound"
      [] OTHER -> "sync"

\* Registration.Reconcile, lines 176-195: the path the invocation takes
Branch(nc, found, lookupOk) ==
    CASE nc.registered = "True" -> "noop"
      [] ~nc.launched -> "NotLaunched"
      [] ~lookupOk -> "error"
      [] found = {} -> "NodeNotFound"
      [] Cardinality(found) > 1 -> "MultipleNodesFound"
      [] OTHER -> "sync"

\* Registration.Reconcile with syncNode inlined.
\*   lookupOk : the Node lookup does not fail with an API error
\*   patchOk  : the Node patch succeeds
RegistrationReconcile(c, lookupOk, patchOk) ==
    /\ nodeClaims[c].exists
    /\ LET nc == nodeClaims[c]
           found == NodesFor(c)
           b == Branch(nc, found, lookupOk)
           looked == b \notin {"noop", "NotLaunched"}
           resolved == b = "sync"
           n == IF resolved THEN CHOOSE x \in found : TRUE ELSE NoNode
           key == CacheMapKey(nc.pool, nc.it)
           wantNode == IF resolved THEN SyncedNode(nodes[n], nc) ELSE AbsentNode
           patches == resolved /\ wantNode # nodes[n]
           synced == resolved /\ (patches => patchOk)
       IN /\ (~looked => lookupOk)
          /\ (~patches => patchOk)
          /\ nodeClaims' = [nodeClaims EXCEPT ![c] =
                CASE b \in {"NotLaunched", "NodeNotFound", "MultipleNodesFound"} ->
                        [nc EXCEPT !.registered = "False", !.reason = b]
                  [] resolved /\ ~synced -> [nc EXCEPT !.alloc = nodes[n].alloc]
                  [] resolved /\ synced ->
                        [nc EXCEPT !.alloc = nodes[n].alloc, !.registered = "True",
                                   !.reason = "", !.nodeName = n]
                  [] OTHER -> nc]
          /\ cache' = IF resolved THEN CacheSet(cache, key, nodes[n].alloc) ELSE cache
          /\ nodes' = IF patches /\ patchOk
                      THEN [nodes EXCEPT ![n] = wantNode] ELSE nodes
          /\ last' = [NoCalls("Register", c) EXCEPT
                        !.err = b = "error" \/ (resolved /\ ~synced),
                        !.fault = (IF looked /\ ~lookupOk THEN {"lookup"} ELSE {})
                                  \cup (IF patches /\ ~patchOk THEN {"nodePatch"} ELSE {}),
                        !.nodePatch = IF patches THEN {n} ELSE {},
                        !.cacheSet = IF resolved THEN {key} ELSE {},
                        !.lookup = IF looked THEN b ELSE "none"]
    /\ UNCHANGED <<curVersion, nodePools, instances, clock, held>>

---------------------------------------------------------------------------
(* nodeclaim garbage collection *)

\* mutant: the health of the Node is not consulted
ShouldDeleteAnyHealth(c) ==
    LET nc == nodeClaims[c]
    IN /\ nc.exists
       /\ ~instances[c]
       /\ nc.registered = "True"
       /\ clock - nc.launchedAt >= ConsistencyWindow

\* mutant: the consistency window is one unit too long
ShouldDeleteLate(c) ==
    LET nc == nodeClaims[c]
        found == NodesFor(c)
    IN /\ nc.exists
       /\ ~instances[c]
       /\ nc.registered = "True"
       /\ ~(\E n \in found : nodes[n].ready)
       /\ clock - nc.launchedAt > ConsistencyWindow

\* mutant: a claim that never registered is collected as well
ShouldDeleteUnregistered(c) ==
    LET nc == nodeClaims[c]
        found == NodesFor(c)
    IN /\ nc.exists
       /\ ~instances[c]
       /\ ~(\E n \in found : nodes[n].ready)
       /\ clock - nc.launchedAt >= ConsistencyWindow

\* mutant: the cloud provider's instance listing is not consulted
ShouldDeleteInstancePresent(c) ==
    LET nc == nodeClaims[c]
        found == NodesFor(c)
    IN /\ nc.exists
       /\ nc.registered = "True"
       /\ ~(\E n \in found : nodes[n].ready)
       /\ clock - nc.launchedAt >= ConsistencyWindow

\* mutant: no consistency window
ShouldDeleteNoWindow(c) ==
    LET nc == nodeClaims[c]
        found == NodesFor(c)
    IN /\ nc.exists
       /\ ~instances[c]
       /\ nc.registered = "True"
       /\ ~(\E n \in found : nodes[n].ready)

\* the decision for one NodeClaim: its instance is gone, a Node was resolved for
\* it (it is registered), no Node of it reports Ready=true, and the consistency
\* window has passed since its launch
ShouldDelete(c) ==
    LET nc == nodeClaims[c]
        found == NodesFor(c)
    IN /\ nc.exists
       /\ ~instances[c]
       /\ nc.registered = "True"
       /\ ~(\E n \in found : nodes[n].ready)
       /\ clock - nc.launchedAt >= ConsistencyWindow

\* mutant: a sweep stops after the first claim it deletes
GarbageCollectFirstOnly(failing) ==
    LET all == {c \in Claims : ShouldDelete(c)}
        targets == {c \in all : \A d \in all : c <= d}
        done == targets \ failing
    IN /\ failing \subseteq targets
       /\ nodeClaims' = [c \in Claims |->
             IF c \in done THEN GoneClaim(nodeClaims[c]) ELSE nodeClaims[c]]
       /\ last' = [NoCalls("GC", 0) EXCEPT
                     !.err = failing # {},
                     !.fault = IF failing # {} THEN {"delete"} ELSE {},
                     !.ncDelete = targets,
                     !.ncDone = done]
       /\ UNCHANGED <<curVersion, nodePools, nodes, cache, instances, clock, held>>

\* one sweep over all NodeClaims; the Delete of the claims in failing fails
GarbageCollect(failing) ==
    LET targets == {c \in Claims : ShouldDelete(c)}
        done == targets \ failing
    IN /\ failing \subseteq targets
       /\ nodeClaims' = [c \in Claims |->
             IF c \in done THEN GoneClaim(nodeClaims[c]) ELSE nodeClaims[c]]
       /\ last' = [NoCalls("GC", 0) EXCEPT
                     !.err = failing # {},
                     !.fault = IF failing # {} THEN {"delete"} ELSE {},
                     !.ncDelete = targets,
                     !.ncDone = done]
       /\ UNCHANGED <<curVersion, nodePools, nodes, cache, instances, clock, held>>

---------------------------------------------------------------------------
(* The same handlers taken in two steps, read and write, so that another    *)
(* writer can act in between.  All API calls succeed unless the object is  *)
(* gone.                                                                   *)

\* client.MergeFrom(stored) and client.StrategicMergeFrom(stored) as the API
\* server applies them: the patch carries the fields in which the modified copy
\* differs from stored and no resourceVersion, so these fields are written
\* onto the object as it is now
MergePatch(cur, stored, want) ==
    [f \in DOMAIN cur |-> IF want[f] # stored[f] THEN want[f] ELSE cur[f]]

\* the dispatcher's Get of the NodePool (stored := np.DeepCopy(), line 58) and,
\* for a stale hash-version, the List of line 99
HashRead(p) ==
    /\ nodePools[p].exists
    /\ held.np[p] = <<>>
    /\ LET listed == IF nodePools[p].hv # curVersion THEN Labeled(p) ELSE {}
       IN held' = [held EXCEPT !.np[p] =
                     <<[np |-> nodePools[p],
                        ncs |-> [c \in listed |-> nodeClaims[c]]]>>]
    /\ last' = NoCalls("HashRead", p)
    /\ UNCHANGED <<curVersion, nodePools, nodeClaims, nodes, cache, instances, clock>>

\* the rest of Controller.Reconcile, computed from the copies: the NodeClaim
\* patches of lines 121-125, the purge of lines 72-77, the NodePool patch of
\* line 78.  A patch of an object that is gone returns not-found, which is
\* ignored.
HashWrite(p) ==
    /\ held.np[p] # <<>>
    /\ LET np == held.np[p][1].np
           ncs == held.np[p][1].ncs
           h == Hash(np.spec)
           targets == {c \in DOMAIN ncs : UpdatedNodeClaim(ncs[c], h) # ncs[c]}
           there == {c \in targets : nodeClaims[c].exists}
           want == UpdatedNodePool(np)
           changed == NodePoolChanged(np, want)
           purge == IF changed THEN PurgeKeys(p) ELSE {}
       IN /\ nodeClaims' = [c \in Claims |->
                IF c \in there
                THEN MergePatch(nodeClaims[c], ncs[c], UpdatedNodeClaim(ncs[c], h))
                ELSE nodeClaims[c]]
          /\ cache' = CacheDelete(cache, purge)
          /\ nodePools' = IF changed /\ nodePools[p].exists
                          THEN [nodePools EXCEPT ![p] = MergePatch(@, np, want)]
                          ELSE nodePools
          /\ last' = [NoCalls("HashWrite", p) EXCEPT
                        !.npPatch = changed,
                        !.ncPatch = targets,
                        !.ncDone = there,
                        !.cacheDel = purge]
    /\ held' = [held EXCEPT !.np[p] = <<>>]
    /\ UNCHANGED <<curVersion, nodes, instances, clock>>

\* Controller.Reconcile from the copies up to the patch call: the NodeClaim
\* patches of lines 121-125, the new annotations of lines 65-68 and, when they
\* differ from the stored ones, the purge of lines 72-77.  The invocation then
\* holds the NodePool it is about to send; without a difference it returns.
HashPurge(p) ==
    /\ Len(held.np[p]) = 1
    /\ LET np == held.np[p][1].np
           ncs == held.np[p][1].ncs
           h == Hash(np.spec)
           targets == {c \in DOMAIN ncs : UpdatedNodeClaim(ncs[c], h) # ncs[c]}
           there == {c \in targets : nodeClaims[c].exists}
           want == UpdatedNodePool(np)
           changed == NodePoolChanged(np, want)
           purge == IF changed THEN PurgeKeys(p) ELSE {}
       IN /\ nodeClaims' = [c \in Claims |->
                IF c \in there
                THEN MergePatch(nodeClaims[c], ncs[c], UpdatedNodeClaim(ncs[c], h))
                ELSE nodeClaims[c]]
          /\ cache' = CacheDelete(cache, purge)
          /\ held' = [held EXCEPT !.np[p] =
                        IF changed THEN <<held.np[p][1], want>> ELSE <<>>]
          /\ last' = [NoCalls("HashPurge", p) EXCEPT
                        !.ncPatch = targets,
                        !.ncDone = there,
                        !.cacheDel = purge]
    /\ UNCHANGED <<curVersion, nodePools, nodes, instances, clock>>

\* the NodePool patch of line 78 is committed by the API server; a NodePool
\* that is gone yields not-found, which is ignored
HashCommit(p) ==
    /\ Len(held.np[p]) = 2
    /\ nodePools' = IF nodePools[p].exists
                    THEN [nodePools EXCEPT ![p] =
                            MergePatch(@, held.np[p][1].np, held.np[p][2])]
                    ELSE nodePools
    /\ held' = [held EXCEPT !.np[p] = <<>>]
    /\ last' = [NoCalls("HashCommit", p) EXCEPT !.npPatch = TRUE]
    /\ UNCHANGED <<curVersion, nodeClaims, nodes, cache, instances, clock>>

\* the dispatcher's Get of the NodeClaim and, for a launched claim that is not
\* registered, the lookup of line 184
RegRead(c) ==
    /\ nodeClaims[c].exists
    /\ held.reg[c] = <<>>
    /\ LET nc == nodeClaims[c]
           found == IF Branch(nc, {}, TRUE) \in {"noop", "NotLaunched"}
                    THEN {} ELSE NodesFor(c)
       IN held' = [held EXCEPT !.reg[c] =
                     <<[nc |-> nc, found |-> found,
                        nodes |-> [n \in found |-> nodes[n]]]>>]
    /\ last' = NoCalls("RegRead", c)
    /\ UNCHANGED <<curVersion, nodePools, nodeClaims, nodes, cache, instances, clock>>

\* the rest of Registration.Reconcile, computed from the copies: syncNode with
\* the cache write of line 234 and the Node patch of lines 246-250, then the
\* conditions and the status the caller persists.  The patch of a Node that is
\* gone fails.
RegWrite(c) ==
    /\ held.reg[c] # <<>>
    /\ LET nc == held.reg[c][1].nc
           found == held.reg[c][1].found
           b == Branch(nc, found, TRUE)
           resolved == b = "sync"
           n == IF resolved THEN CHOOSE x \in found : TRUE ELSE NoNode
           stored == IF resolved THEN held.reg[c][1].nodes[n] ELSE AbsentNode
           key == CacheMapKey(nc.pool, nc.it)
           wantNode == SyncedNode(stored, nc)
           patches == resolved /\ wantNode # stored
           patchOk == patches => nodes[n].exists
           wantClaim ==
               CASE b \in {"NotLaunched", "NodeNotFound", "MultipleNodesFound"} ->
                       [nc EXCEPT !.registered = "False", !.reason = b]
                 [] resolved /\ ~patchOk -> [nc EXCEPT !.alloc = stored.alloc]
                 [] resolved /\ patchOk ->
                       [nc EXCEPT !.alloc = stored.alloc, !.registered = "True",
                                  !.reason = "", !.nodeName = n]
                 [] OTHER -> nc
       IN /\ nodeClaims' = IF nodeClaims[c].exists
                           THEN [nodeClaims EXCEPT ![c] = MergePatch(@, nc, wantClaim)]
                           ELSE nodeClaims
          /\ cache' = IF resolved THEN CacheSet(cache, key, stored.alloc) ELSE cache
          /\ nodes' = IF patches /\ patchOk
                      THEN [nodes EXCEPT ![n] = MergePatch(@, stored, wantNode)]
                      ELSE nodes
          /\ last' = [NoCalls("RegWrite", c) EXCEPT
                        !.err = resolved /\ ~patchOk,
                        !.fault = IF resolved /\ ~patchOk THEN {"nodePatch"} ELSE {},
                        !.nodePatch = IF patches THEN {n} ELSE {},
                        !.cacheSet = IF resolved THEN {key} ELSE {},
                        !.lookup = IF found # {} \/ b = "NodeNotFound" THEN b ELSE "none"]
    /\ held' = [held EXCEPT !.reg[c] = <<>>]
    /\ UNCHANGED <<curVersion, nodePools, instances, clock>>

---------------------------------------------------------------------------
(* Environment: the other writers of the same objects *)

\* a user edits the drift-relevant fields of a NodePool
EditNodePool(p, s) ==
    /\ nodePools[p].exists
    /\ nodePools[p].spec # s
    /\ nodePools' = [nodePools EXCEPT ![p].spec = s]
    /\ last' = NoCalls("Edit", p)
    /\ UNCHANGED <<curVersion, nodeClaims, nodes, cache, instances, clock, held>>

\* the controller is replaced by a build with a new hashing scheme
Upgrade ==
    /\ curVersion < MaxVersion
    /\ curVersion' = curVersion + 1
    /\ last' = NoCalls("Upgrade", 0)
    /\ UNCHANGED <<nodePools, nodeClaims, nodes, cache, instances, clock, held>>

DriftedStates == {"nil", "True", "False"}

\* the drift controller sets or clears the Drifted condition
SetDrifted(c, d) ==
    /\ nodeClaims[c].exists
    /\ nodeClaims[c].drifted # d
    /\ nodeClaims' = [nodeClaims EXCEPT ![c].drifted = d]
    /\ last' = NoCalls("Drift", c)
    /\ UNCHANGED <<curVersion, nodePools, nodes, cache, instances, clock, held>>

\* a cache entry passes its TTL and is treated as absent from then on
CacheExpire(k) ==
    /\ k \in DOMAIN cache
    /\ cache' = CacheDelete(cache, {k})
    /\ last' = NoCalls("Expire", 0)
    /\ UNCHANGED <<curVersion, nodePools, nodeClaims, nodes, instances, clock, held>>

---------------------------------------------------------------------------
(* Initial states *)

\* the launch controller creates the instance and sets Launched=True
Launch(c) ==
    /\ nodeClaims[c].exists
    /\ ~nodeClaims[c].launched
    /\ nodeClaims' = [nodeClaims EXCEPT ![c].launched = TRUE, ![c].launchedAt = clock]
    /\ last' = NoCalls("Launch", c)
    /\ UNCHANGED <<curVersion, nodePools, nodes, cache, instances, clock, held>>

\* a kubelet registers a Node carrying provider identifier pid
NodeJoin(n, pid, a) ==
    /\ ~nodes[n].exists
    /\ nodes' = [nodes EXCEPT ![n] = BootedNode(pid, a)]
    /\ last' = NoCalls("Join", n)
    /\ UNCHANGED <<curVersion, nodePools, nodeClaims, cache, instances, clock, held>>

\* a Node is deleted out-of-band
NodeLeave(n) ==
    /\ nodes[n].exists
    /\ nodes' = [nodes EXCEPT ![n] = AbsentNode]
    /\ last' = NoCalls("Leave", n)
    /\ UNCHANGED <<curVersion, nodePools, nodeClaims, cache, instances, clock, held>>

\* the kubelet reports the Node Ready or NotReady
SetReady(n, r) ==
    /\ nodes[n].exists
    /\ nodes[n].ready # r
    /\ nodes' = [nodes EXCEPT ![n].ready = r]
    /\ last' = NoCalls("Ready", n)
    /\ UNCHANGED <<curVersion, nodePools, nodeClaims, cache, instances, clock, held>>

\* the cloud instance of a launched claim goes away
InstanceGone(c) ==
    /\ nodeClaims[c].exists /\ nodeClaims[c].launched
    /\ instances[c]
    /\ instances' = [instances EXCEPT ![c] = FALSE]
    /\ last' = NoCalls("InstanceGone", c)
    /\ UNCHANGED <<curVersion, nodePools, nodeClaims, nodes, cache, clock, held>>

\* ten seconds pass
Tick ==
    /\ clock < MaxTime
    /\ clock' = clock + 1
    /\ last' = NoCalls("Tick", 0)
    /\ UNCHANGED <<curVersion, nodePools, nodeClaims, nodes, cache, instances, held>>

\* every claim launched and its Node booted
LaunchedClaims(lab) ==
    [c \in Claims |-> [FreshClaim(c, lab[c]) EXCEPT !.launched = TRUE]]

BootedNodes == [n \in Nodes |-> IF n \in Claims THEN BootedNode(n, 1) ELSE AbsentNode]

\* The hash controller and the writers of what it reads.  NodePool "a" is freshly
\* applied; "ab" is a name that NodeClaim labels still carry.
Init ==
    /\ curVersion = 1
    /\ nodePools = [p \in PoolNames |-> IF p = PoolA THEN FreshPool ELSE GonePool]
    /\ \E lab \in [Claims -> PoolNames] : nodeClaims = LaunchedClaims(lab)
    /\ nodes = BootedNodes
    /\ cache = EmptyCache
    /\ instances = [c \in Claims |-> TRUE]
    /\ clock = 0
    /\ last = NoCalls("Init", 0)
    /\ held = NoReads

Next ==
    \/ \E p \in PoolNames, listOk \in BOOLEAN, ncOut \in [Claims -> PatchOutcomes],
          npOut \in PatchOutcomes : HashReconcile(p, listOk, ncOut, npOut)
    \/ \E p \in PoolNames, s \in Specs : EditNodePool(p, s)
    \/ Upgrade
    \/ \E c \in Claims, d \in DriftedStates : SetDrifted(c, d)

Spec == Init /\ [][Next]_vars

\* The hash controller and Registration sharing the cache: both pools applied,
\* one build of the controller.
InitCache ==
    /\ curVersion = 1
    /\ nodePools = [p \in PoolNames |-> FreshPool]
    /\ \E lab \in [Claims -> PoolNames] : nodeClaims = LaunchedClaims(lab)
    /\ nodes = BootedNodes
    /\ cache = EmptyCache
    /\ instances = [c \in Claims |-> TRUE]
    /\ clock = 0
    /\ last = NoCalls("Init", 0)
    /\ held = NoReads

NextCache ==
    \/ \E p \in PoolNames, listOk \in BOOLEAN, npOut \in PatchOutcomes :
          HashReconcile(p, listOk, [c \in Claims |-> "ok"], npOut)
    \/ \E c \in Claims, patchOk \in BOOLEAN : RegistrationReconcile(c, TRUE, patchOk)
    \/ \E p \in PoolNames, s \in Specs : EditNodePool(p, s)
    \/ \E k \in DOMAIN cache : CacheExpire(k)

SpecCache == InitCache /\ [][NextCache]_vars

\* Registration and the writers of what it reads: claims not yet launched, no
\* Node yet; claim c is labeled with pool "a" when c is odd and "ab" otherwise.
PoolOf(c) == IF c % 2 = 1 THEN PoolA ELSE PoolAB

InitReg ==
    /\ curVersion = 1
    /\ nodePools = [p \in PoolNames |-> FreshPool]
    /\ nodeClaims = [c \in Claims |-> FreshClaim(c, PoolOf(c))]
    /\ nodes = [n \in Nodes |-> AbsentNode]
    /\ cache = EmptyCache
    /\ instances = [c \in Claims |-> TRUE]
    /\ clock = 0
    /\ last = NoCalls("Init", 0)
    /\ held = NoReads

NextReg ==
    \/ \E c \in Claims, lookupOk \in BOOLEAN, patchOk \in BOOLEAN :
          RegistrationReconcile(c, lookupOk, patchOk)
    \/ \E c \in Claims : Launch(c)
    \/ \E n \in Nodes, pid \in Claims, a \in Allocs : NodeJoin(n, pid, a)
    \/ \E n \in Nodes : NodeLeave(n)

SpecReg == InitReg /\ [][NextReg]_vars

\* Garbage collection with launch and registration: claims not yet launched,
\* Node n boots for claim n.
NextGC ==
    \/ \E failing \in SUBSET Claims : GarbageCollect(failing)
    \/ \E c \in Claims : RegistrationReconcile(c, TRUE, TRUE)
    \/ \E c \in Claims : Launch(c)
    \/ \E n \in Nodes \cap Claims : NodeJoin(n, n, 1)
    \/ \E n \in Nodes : NodeLeave(n)
    \/ \E n \in Nodes, r \in BOOLEAN : SetReady(n, r)
    \/ \E c \in Claims : InstanceGone(c)
    \/ Tick

SpecGC == InitReg /\ [][NextGC]_vars

\* The handlers in two steps each, with the other writers of the objects they
\* patch: a user editing the NodePool, the drift controller writing the Drifted
\* condition of the pool's claims, the kubelet writing the Node's readiness.
\* Invocations for one key do not overlap.
NextRace ==
    \/ \E p \in PoolNames : HashRead(p)
    \/ \E p \in PoolNames : HashWrite(p)
    \/ \E c \in Claims : RegRead(c)
    \/ \E c \in Claims : RegWrite(c)
    \/ \E p \in PoolNames, s \in Specs : EditNodePool(p, s)
    \/ \E c \in Labeled(PoolA), d \in DriftedStates : SetDrifted(c, d)
    \/ \E n \in Nodes, r \in BOOLEAN : SetReady(n, r)

\* pool "a" freshly applied, claim c labeled PoolOf(c), launched, its Node booted
InitRace ==
    /\ curVersion = 1
    /\ nodePools = [p \in PoolNames |-> IF p = PoolA THEN FreshPool ELSE GonePool]
    /\ nodeClaims = LaunchedClaims([c \in Claims |-> PoolOf(c)])
    /\ nodes = BootedNodes
    /\ cache = EmptyCache
    /\ instances = [c \in Claims |-> TRUE]
    /\ clock = 0
    /\ last = NoCalls("Init", 0)
    /\ held = NoReads

SpecRace == InitRace /\ [][NextRace]_vars

\* The hash controller of pool "a" retried by the dispatcher: a List or a patch
\* may fail with an error any number of times, and a reconcile in which every
\* call succeeds is eventually run whenever it would change something.
AllOk == [c \in Claims |-> "ok"]

NextRetry ==
    \/ \E listOk \in BOOLEAN, ncOut \in [Claims -> PatchOutcomes],
          npOut \in {"ok", "err"} : HashReconcile(PoolA, listOk, ncOut, npOut)
    \/ \E s \in Specs : EditNodePool(PoolA, s)
    \/ Upgrade
    \/ \E c \in Claims, d \in DriftedStates : SetDrifted(c, d)

SpecRetry ==
    /\ Init
    /\ [][NextRetry]_vars
    /\ WF_vars(HashReconcile(PoolA, TRUE, AllOk, "ok"))

\* The hash controller in three steps (read, purge, patch) beside Registration,
\* which writes the cache the hash controller purges, and a user editing the
\* NodePools.
NextPurge ==
    \/ \E p \in PoolNames : HashRead(p)
    \/ \E p \in PoolNames : HashPurge(p)
    \/ \E p \in PoolNames : HashCommit(p)
    \/ \E c \in Claims, patchOk \in BOOLEAN : RegistrationReconcile(c, TRUE, patchOk)
    \/ \E p \in PoolNames, s \in Specs : EditNodePool(p, s)

SpecPurge == InitRace /\ [][NextPurge]_vars

---------------------------------------------------------------------------
(* Properties of the hash controller *)

IsHash(l) == l.op = "Hash"

\* the pool is converged: version current, hash the digest of its fields
Converged(np) == np.hv = curVersion /\ np.hash = Hash(np.spec)

\* the key under which the allocatable of (pool p, some instance type) is cached
KeyedBy(k, p) == \E c \in Claims : k = CacheMapKey(p, InstanceTypeOf(c))

\* C1: after a Reconcile that returns without error, a NodePool that still
\* exists carries the current hash-version and the digest of its current
\* drift-relevant fields, whatever it carried before.
C1_ReconcileConverges ==
    (IsHash(last) /\ ~last.err /\ nodePools[last.key].exists)
        => Converged(nodePools[last.key])

\* the pool was stale (version 1 annotations under version 2), its fields were
\* edited, and the reconcile patched it
C1_Witness ==
    /\ IsHash(last) /\ ~last.err /\ last.npPatch
    /\ curVersion = 2
    /\ nodePools[last.key].exists
    /\ nodePools[last.key].spec = 1

\* C2: when a pool with a stale hash-version is reconciled, a stale NodeClaim
\* labeled with it is patched; the committed patch sets the hash-version to the
\* current one in every case and sets the hash to the pool's new hash exactly
\* when the claim had no Drifted condition; a reconcile that returns no error
\* has patched every stale claim that still exists; a claim whose hash-version
\* is current is neither patched nor changed.
C2_Propagation ==
    [][ (IsHash(last') /\ nodePools[last'.key].hv # curVersion) =>
          \A c \in Claims :
            LET old == nodeClaims[c]
                new == nodeClaims'[c]
                h == Hash(nodePools[last'.key].spec)
            IN (old.exists /\ old.pool = last'.key) =>
                 IF old.hv # curVersion
                 THEN /\ (~last'.err /\ new.exists) => c \in last'.ncDone
                      /\ c \in last'.ncDone =>
                            /\ new.hv = curVersion
                            /\ (old.drifted = "nil" => new.hash = h)
                            /\ (old.drifted # "nil" => new.hash = old.hash)
                            /\ new = [old EXCEPT !.hv = new.hv, !.hash = new.hash]
                 ELSE new = old /\ c \notin last'.ncPatch ]_vars

\* one propagation patched a Drifted claim and a claim without the condition
C2_Witness ==
    /\ IsHash(last)
    /\ curVersion = 2
    /\ \E c, d \in last.ncDone :
          /\ nodeClaims[c].drifted = "True"
          /\ nodeClaims[c].hash # Hash(nodePools[last.key].spec)
          /\ nodeClaims[d].drifted = "nil"
          /\ nodeClaims[d].hash = Hash(nodePools[last.key].spec)

\* C3: no reconcile of the hash controller changes the Drifted condition of
\* any NodeClaim.
C3_DriftedKept ==
    [][ IsHash(last') =>
          \A c \in Claims :
            (nodeClaims[c].exists /\ nodeClaims'[c].exists)
                => nodeClaims'[c].drifted = nodeClaims[c].drifted ]_vars

\* a hash-version bump was propagated to a claim whose Drifted is set
C3_Witness ==
    /\ IsHash(last) /\ ~last.err
    /\ curVersion = 2
    /\ \E c \in last.ncDone :
          nodeClaims[c].drifted # "nil" /\ nodeClaims[c].hv = curVersion

\* C4: a reconcile of pool P that finds P's stored hash different from the
\* digest of its fields, and does not fail while propagating a hash-version,
\* leaves no cache entry keyed by P; no reconcile of P touches an entry keyed
\* by another pool, also when that pool's name starts with P's name.
C4_PurgeOwnEntries ==
    [][ IsHash(last') =>
          LET p == last'.key
              failedEarly == last'.fault \cap {"list", "ncPatch"} # {}
          IN /\ (nodePools[p].hash # Hash(nodePools[p].spec) /\ ~failedEarly)
                  => \A k \in DOMAIN cache' : ~KeyedBy(k, p)
             /\ \A k \in DOMAIN cache :
                  ~KeyedBy(k, p) => (k \in DOMAIN cache' /\ cache'[k] = cache[k]) ]_vars

\* pool "a" was edited and reconciled: its entries were deleted while an entry
\* of pool "ab" stays
C4_Witness ==
    /\ IsHash(last) /\ last.key = PoolA
    /\ last.cacheDel # {}
    /\ nodePools[PoolA].exists /\ nodePools[PoolA].spec = 1
    /\ \E k \in DOMAIN cache : KeyedBy(k, PoolAB)

\* C5: reconciling a converged NodePool makes no mutating call: no NodePool
\* patch, no NodeClaim patch, no cache deletion, and nothing changes.
C5_ConvergedNoWrites ==
    [][ (IsHash(last') /\ Converged(nodePools[last'.key])) =>
          /\ ~last'.npPatch
          /\ last'.ncPatch = {}
          /\ last'.cacheDel = {}
          /\ ~last'.err
          /\ nodePools' = nodePools
          /\ nodeClaims' = nodeClaims
          /\ cache' = cache ]_vars

\* a converged pool with cached entries of its own was reconciled
C5_Witness ==
    /\ IsHash(last) /\ ~last.npPatch /\ last.ncPatch = {} /\ ~last.err
    /\ Converged(nodePools[last.key])
    /\ \E k \in DOMAIN cache : KeyedBy(k, last.key)

\* C17: a propagation whose List succeeded patches every stale NodeClaim of the
\* pool, whatever becomes of the patches of the others: a committed patch is in
\* place after the reconcile also when another patch failed, a claim found
\* deleted counts for no error, and the propagation returns an error (the
\* reconcile returns it and does not go on to patch the NodePool) exactly when
\* the patch of some claim failed with an error other than not-found, which
\* leaves that claim as it was.
C17_BatchContinues ==
    [][ (/\ IsHash(last')
         /\ nodePools[last'.key].hv # curVersion
         /\ "list" \notin last'.fault) =>
          LET p == last'.key
              h == Hash(nodePools[p].spec)
              staleClaims == {c \in Claims : /\ nodeClaims[c].exists
                                             /\ nodeClaims[c].pool = p
                                             /\ nodeClaims[c].hv # curVersion}
              failed == {c \in staleClaims : nodeClaims'[c] = nodeClaims[c]}
          IN /\ last'.ncPatch = staleClaims
             /\ \A c \in staleClaims :
                  \/ /\ c \in last'.ncDone
                     /\ nodeClaims'[c] = UpdatedNodeClaim(nodeClaims[c], h)
                  \/ /\ c \notin last'.ncDone
                     /\ ~nodeClaims'[c].exists
                  \/ /\ c \notin last'.ncDone
                     /\ c \in failed
             /\ "ncPatch" \in last'.fault <=> failed # {}
             /\ failed # {} => (last'.err /\ ~last'.npPatch)
             /\ failed = {} => last'.npPatch ]_vars

\* in one propagation the patch of the first listed claim failed and the patch
\* of a later one is committed
C17_Witness ==
    /\ IsHash(last) /\ last.err /\ ~last.npPatch
    /\ \E c, d \in last.ncPatch :
          /\ d < c
          /\ d \notin last.ncDone
          /\ nodeClaims[d].exists /\ nodeClaims[d].hv # curVersion
          /\ c \in last.ncDone
          /\ nodeClaims[c].hv = curVersion

\* the pool and every NodeClaim labeled with it carry the current hash-version
AllCurrent(p) ==
    /\ nodePools[p].hv = curVersion
    /\ \A c \in Labeled(p) : nodeClaims[c].hv = curVersion

\* C20: a reconcile of a stale pool whose propagation failed (the List or a
\* NodeClaim patch returned an error) returns the error, does not patch the
\* NodePool and leaves its hash-version stale; and when the dispatcher keeps
\* retrying and a reconcile whose calls all succeed is eventually run, from
\* every state a state is reached in which the pool and every NodeClaim
\* labeled with it carry the current hash-version.
C20_ConvergesUnderRetry ==
    /\ [][ (/\ IsHash(last')
            /\ nodePools[last'.key].hv # curVersion
            /\ last'.fault \cap {"list", "ncPatch"} # {}) =>
              /\ last'.err
              /\ ~last'.npPatch
              /\ nodePools' = nodePools
              /\ nodePools'[last'.key].hv # curVersion ]_vars
    /\ ~AllCurrent(PoolA) ~> AllCurrent(PoolA)

\* after the hashing scheme changed, a reconcile whose propagation failed on
\* one claim and succeeded on another left the pool stale
C20_Witness ==
    /\ IsHash(last) /\ last.key = PoolA /\ last.err
    /\ "ncPatch" \in last.fault
    /\ last.ncDone # {}
    /\ curVersion = 2
    /\ nodePools[PoolA].hv = 1
    /\ ~AllCurrent(PoolA)

---------------------------------------------------------------------------
(* Properties of Registration *)

IsReg(l) == l.op = "Register"

\* C6: Registered becomes True only in an invocation that finds Launched true;
\* for a claim that is not launched the invocation sets Registered=False with
\* reason "NotLaunched", looks up no Node, patches no Node, writes no cache
\* entry and returns no error.
C6_LaunchedFirst ==
    [][ IsReg(last') =>
          LET old == nodeClaims[last'.key]
              new == nodeClaims'[last'.key]
          IN /\ (new.registered = "True" /\ old.registered # "True") => old.launched
             /\ ~old.launched =>
                  /\ new.registered = "False" /\ new.reason = "NotLaunched"
                  /\ last'.lookup = "none"
                  /\ last'.nodePatch = {} /\ nodes' = nodes
                  /\ last'.cacheSet = {} /\ cache' = cache
                  /\ ~last'.err ]_vars

\* a claim that is not launched, with a Node already carrying its provider
\* identifier, was reconciled
C6_Witness ==
    /\ IsReg(last)
    /\ ~nodeClaims[last.key].launched
    /\ nodeClaims[last.key].reason = "NotLaunched"
    /\ NodesFor(last.key) # {}

\* C7: for a launched claim that is not registered and whose lookup finds no
\* Node, the invocation sets Registered=False with reason "NodeNotFound",
\* registers nothing and returns no error; each repeated invocation does so.
C7_NodeNotFound ==
    [][ (/\ IsReg(last')
         /\ nodeClaims[last'.key].launched
         /\ nodeClaims[last'.key].registered # "True"
         /\ NodesFor(last'.key) = {}
         /\ "lookup" \notin last'.fault) =>
          LET new == nodeClaims'[last'.key]
          IN /\ new.registered = "False" /\ new.reason = "NodeNotFound"
             /\ ~last'.err
             /\ last'.nodePatch = {} /\ nodes' = nodes
             /\ last'.cacheSet = {} /\ cache' = cache ]_vars

\* an invocation found no Node for the claim while another Node exists
C7_Witness ==
    /\ IsReg(last) /\ last.lookup = "NodeNotFound" /\ ~last.err
    /\ nodeClaims[last.key].launched
    /\ nodeClaims[last.key].reason = "NodeNotFound"
    /\ NodesFor(last.key) = {}
    /\ \E n \in Nodes : nodes[n].exists

\* C8: when more than one Node carries the provider identifier of a launched,
\* unregistered claim, the invocation sets Registered=False with reason
\* "MultipleNodesFound", returns no error and patches no Node.
C8_MultipleNodes ==
    [][ (/\ IsReg(last')
         /\ nodeClaims[last'.key].launched
         /\ nodeClaims[last'.key].registered # "True"
         /\ Cardinality(NodesFor(last'.key)) > 1
         /\ "lookup" \notin last'.fault) =>
          LET new == nodeClaims'[last'.key]
          IN /\ new.registered = "False" /\ new.reason = "MultipleNodesFound"
             /\ ~last'.err
             /\ last'.nodePatch = {} /\ nodes' = nodes
             /\ last'.cacheSet = {} /\ cache' = cache ]_vars

\* two unsynced Nodes share the claim's provider identifier
C8_Witness ==
    /\ IsReg(last) /\ last.lookup = "MultipleNodesFound" /\ ~last.err
    /\ nodeClaims[last.key].reason = "MultipleNodesFound"
    /\ Cardinality(NodesFor(last.key)) = 2
    /\ \A n \in NodesFor(last.key) : ~nodes[n].registered

\* C9: once Registered is True, an invocation changes no NodeClaim, patches no
\* Node, writes no cache entry and returns no error, whatever has become of
\* the Node; so this controller never takes Registered from True to False.
C9_RegisteredTerminal ==
    [][ (IsReg(last') /\ nodeClaims[last'.key].registered = "True") =>
          /\ nodeClaims' = nodeClaims
          /\ nodes' = nodes
          /\ cache' = cache
          /\ last'.lookup = "none"
          /\ last'.nodePatch = {} /\ last'.cacheSet = {}
          /\ ~last'.err ]_vars

\* a registered claim was reconciled after its Node had disappeared
C9_Witness ==
    /\ IsReg(last)
    /\ nodeClaims[last.key].registered = "True"
    /\ NodesFor(last.key) = {}

\* C19: after an invocation that sets Registered=True for a claim of pool P and
\* instance type T, whose Node is n, the cache holds under the key of (P, T)
\* the allocatable that Node n reports, the claim's status allocatable is the
\* same value, and the claim's node name is n.
C19_RegisteredRecords ==
    [][ (/\ IsReg(last')
         /\ nodeClaims[last'.key].registered # "True"
         /\ nodeClaims'[last'.key].registered = "True") =>
          LET old == nodeClaims[last'.key]
              new == nodeClaims'[last'.key]
              k == CacheMapKey(old.pool, old.it)
          IN \E n \in NodesFor(last'.key) :
                /\ k \in DOMAIN cache'
                /\ cache'[k] = nodes[n].alloc
                /\ new.alloc = nodes[n].alloc
                /\ new.nodeName = n
                /\ new.pool = old.pool /\ new.it = old.it ]_vars

\* a claim was registered with a Node reporting allocatable 2 after an earlier
\* invocation had cached allocatable 1 for another claim
C19_Witness ==
    /\ IsReg(last) /\ ~last.err /\ last.cacheSet # {}
    /\ nodeClaims[last.key].registered = "True"
    /\ nodeClaims[last.key].alloc = 2
    /\ nodeClaims[last.key].nodeName # last.key
    /\ \E k \in DOMAIN cache : k \notin last.cacheSet /\ cache[k] = 1

---------------------------------------------------------------------------
(* Properties of a failing patch *)

\* C18: an invocation that fails at its patch leaves no side effect: after a
\* hash reconcile whose NodePool patch failed the cache holds the entries it
\* held before, and after a Registration whose Node patch failed the cache
\* holds the entries it held before and the claim is not Registered.
C18_FailedPatchNoEffect ==
    [][ /\ (IsHash(last') /\ "npPatch" \in last'.fault) => cache' = cache
        /\ (IsReg(last') /\ "nodePatch" \in last'.fault) =>
              /\ cache' = cache
              /\ nodeClaims'[last'.key].registered # "True" ]_vars

\* a hash reconcile whose NodePool patch failed has deleted the pool's cache
\* entries: the pool is as stale as before and the cache has no entry of it
C18_Witness ==
    /\ IsHash(last) /\ "npPatch" \in last.fault /\ last.err
    /\ last.cacheDel # {}
    /\ ~Converged(nodePools[last.key])
    /\ \A k \in DOMAIN cache : ~KeyedBy(k, last.key)

---------------------------------------------------------------------------
(* Properties of garbage collection *)

IsGC(l) == l.op = "GC"

KeptBySweep(c) == c \notin last'.ncDelete /\ nodeClaims'[c] = nodeClaims[c]

\* C11: no sweep deletes a NodeClaim that has a Node reporting Ready=true,
\* also when its instance is gone and the consistency window has passed; this
\* holds in every sweep taken while the Node is Ready.
C11_ReadyNodeKept ==
    [][ IsGC(last') =>
          \A c \in Claims :
            (nodeClaims[c].exists /\ \E n \in NodesFor(c) : nodes[n].ready)
                => KeptBySweep(c) ]_vars

\* a sweep ran past the window over a registered claim whose instance is gone
\* and whose Node is Ready, while another claim was deleted by the same sweep
C11_Witness ==
    /\ IsGC(last) /\ last.ncDone # {}
    /\ \E c \in Claims :
          /\ nodeClaims[c].exists /\ nodeClaims[c].registered = "True"
          /\ \E n \in NodesFor(c) : nodes[n].ready
          /\ ~instances[c]
          /\ clock - nodeClaims[c].launchedAt >= ConsistencyWindow

\* C12: no sweep deletes a launched NodeClaim that never reached registration
\* (no Node was ever resolved for it), also when its instance is gone and the
\* consistency window has passed.
C12_UnregisteredKept ==
    [][ IsGC(last') =>
          \A c \in Claims :
            (/\ nodeClaims[c].exists
             /\ nodeClaims[c].launched
             /\ nodeClaims[c].registered # "True")
                => KeptBySweep(c) ]_vars

\* a sweep ran past the window over a launched claim with no Node, Registered
\* not true, whose instance is gone
C12_Witness ==
    /\ IsGC(last)
    /\ \E c \in Claims :
          /\ nodeClaims[c].exists /\ nodeClaims[c].launched
          /\ nodeClaims[c].registered # "True"
          /\ NodesFor(c) = {}
          /\ ~instances[c]
          /\ clock - nodeClaims[c].launchedAt >= ConsistencyWindow

\* C13: no sweep deletes a NodeClaim whose cloud instance is present, whatever
\* the state of its Node and however much time has passed; in particular not a
\* registered claim whose Node was deleted out-of-band.
C13_InstancePresentKept ==
    [][ IsGC(last') =>
          \A c \in Claims :
            (nodeClaims[c].exists /\ instances[c]) => KeptBySweep(c) ]_vars

\* a sweep ran past the window over a registered claim whose Node is gone and
\* whose instance is present
C13_Witness ==
    /\ IsGC(last)
    /\ \E c \in Claims :
          /\ nodeClaims[c].exists /\ nodeClaims[c].registered = "True"
          /\ nodeClaims[c].nodeName # NoNode
          /\ NodesFor(c) = {}
          /\ instances[c]
          /\ clock - nodeClaims[c].launchedAt >= ConsistencyWindow

\* C14: no sweep deletes a NodeClaim launched less than the consistency window
\* ago, also when its Node is not Ready and its instance is gone; every claim
\* a sweep deletes was launched at least the window before the sweep.
C14_WindowRespected ==
    [][ IsGC(last') =>
          \A c \in Claims :
            /\ (/\ nodeClaims[c].exists
                /\ clock - nodeClaims[c].launchedAt < ConsistencyWindow)
                   => KeptBySweep(c)
            /\ c \in last'.ncDelete
                   => clock >= nodeClaims[c].launchedAt + ConsistencyWindow ]_vars

\* a sweep ran inside the window of a registered claim launched after time 0,
\* whose Node is NotReady and whose instance is gone
C14_Witness ==
    /\ IsGC(last)
    /\ \E c \in Claims :
          /\ nodeClaims[c].exists /\ nodeClaims[c].registered = "True"
          /\ nodeClaims[c].launchedAt > 0
          /\ clock - nodeClaims[c].launchedAt < ConsistencyWindow
          /\ NodesFor(c) # {}
          /\ \A n \in NodesFor(c) : ~nodes[n].ready
          /\ ~instances[c]

\* what the state of claim c alone calls for: registered, instance gone, no
\* Node of its own Ready, launched at least the window ago
CallsForDeletion(c) ==
    /\ nodeClaims[c].exists
    /\ nodeClaims[c].registered = "True"
    /\ ~instances[c]
    /\ \A n \in Nodes :
          (nodes[n].exists /\ nodes[n].providerID = c) => ~nodes[n].ready
    /\ clock - nodeClaims[c].launchedAt >= ConsistencyWindow

---------------------------------------------------------------------------
(* Properties of the writes *)

IsHashWrite(l) == l.op = "HashWrite"
IsRegWrite(l) == l.op = "RegWrite"

\* C16: every patch is conditioned on the object being as the controller read
\* it: when the NodePool, a NodeClaim or the Node was modified by another
\* writer between the read and the patch, the patch leaves the object as it is
\* and the invocation returns an error.
C16_WritesConditioned ==
    [][ /\ IsHashWrite(last') =>
             LET p == last'.key
                 read == held.np[p][1]
             IN /\ (last'.npPatch /\ nodePools[p] # read.np)
                     => (nodePools'[p] = nodePools[p] /\ last'.err)
                /\ \A c \in last'.ncPatch :
                     nodeClaims[c] # read.ncs[c]
                        => (nodeClaims'[c] = nodeClaims[c] /\ last'.err)
        /\ IsRegWrite(last') =>
             LET read == held.reg[last'.key][1]
             IN \A n \in last'.nodePatch :
                   nodes[n] # read.nodes[n]
                      => (nodes'[n] = nodes[n] /\ last'.err) ]_vars

\* a reconcile that read the NodePool before a user's edit patched it after
\* the edit and returned no error: the stored hash is the digest of the fields
\* as they were read
C16_Witness ==
    /\ IsHashWrite(last) /\ last.npPatch /\ ~last.err
    /\ nodePools[last.key].exists
    /\ nodePools[last.key].hv = curVersion
    /\ nodePools[last.key].hash # Hash(nodePools[last.key].spec)

IsHashCommit(l) == l.op = "HashCommit"

\* C21: whenever the NodePool patch of a reconcile of pool P that changes P's
\* stored hash is committed, the cache holds no entry keyed by P: every entry
\* there at that moment was written before the commit.
C21_NoEntryOlderThanPatch ==
    [][ (/\ IsHashCommit(last')
         /\ nodePools'[last'.key].hash # nodePools[last'.key].hash) =>
          \A k \in DOMAIN cache' : ~KeyedBy(k, last'.key) ]_vars

\* the patch that stamps the digest of the edited fields of a pool was
\* committed while the cache holds an entry of that pool, written by a
\* Registration after the purge
C21_Witness ==
    /\ IsHashCommit(last)
    /\ nodePools[last.key].exists
    /\ nodePools[last.key].spec = 1
    /\ Converged(nodePools[last.key])
    /\ \E k \in DOMAIN cache : KeyedBy(k, last.key)

====
